---- MODULE Spec2Model ----
(***************************************************************************)
(* tarjousbot: a one-shot job that scans a forum thread page by page,      *)
(* delivers the posts that are newer than a persisted watermark to a       *)
(* webhook, and persists a two-record cursor (last_page, last_post).       *)
(*                                                                         *)
(* The model follows src/src/main.rs.  One run of the program is           *)
(*   Start        lines 181-200  load the cursor, build client and webhook *)
(*   ScanPage     lines 202-286  one iteration of the page loop            *)
(*   PersistPage  line  289      set_last_page(page_number)?               *)
(*   PersistPost  lines 290-292  set_last_sent_post(last_id)?; Ok(())      *)
(* and every `?` of run() is an exit of the run with an error, every       *)
(* eprintln! that cannot write to stderr a panic.                          *)
(***************************************************************************)
EXTENDS Integers, Sequences, FiniteSets

\* ---------------------------------------------------------------- bounds
MaxPage == 1        \* next-page elements name the pages 1..MaxPage; final URLs
                    \* name these, page 0 and page u32::MAX
MaxId == 2          \* post ids on the pages are 1..MaxId
MaxPosts == 2       \* at most MaxPosts `.message` elements on one page
MaxRuns == 2        \* invocations of the program in one behaviour
MaxText == 3        \* characters of a text after its head
MaxChars == 4       \* the largest limit given to truncate
MaxRunsAfterFault == 0  \* runs followed after a run in which the read of a record failed

\* ------------------------------------------------------------- constants
\* u32::MAX, the in-band "no stored page" value of run().  The real value,
\* 4294967295, is beyond TLC's integers; the model keeps what the code uses
\* of it: it is a u32, it is equal only to itself, and it is greater than
\* every page number of the thread.
U32_MAX == 2147483647

\* Option::None of a u32 record: in the store, a file that is absent or
\* shorter than 4 bytes; as a value read, also a file whose read failed
Unset == -1
\* the value of a `data-content` attribute that get_post_id rejects
\* (attribute absent, no "post-" prefix, or a suffix that is no u32)
MalformedMarker == -1
\* next-page navigation: element absent / text absent or not a u32
NoNav == -3
BadNav == -1
\* no page number (history: no GET yet, no page fetched yet)
NoPage == -1
\* a page of the thread the server has not been asked for yet
NotLoaded == -2

Pages == 1..MaxPage
\* The page numbers a final URL may carry (lines 210-219 take any u32 from
\* its last segment): the pages of the thread, page 0 and u32::MAX itself.
AllPages == {0} \cup Pages \cup {U32_MAX}
\* the page numbers in ascending order
PageOrder == <<0>> \o [i \in 1..MaxPage |-> i] \o <<U32_MAX>>
Ids == 1..MaxId

\* A `.message` element as far as run() looks at it: its data-content marker
\* and whether the nested elements a notification is built from (time,
\* username with href and text, avatar src when an avatar is there, body
\* container) are all in place.
Posts == [marker : Ids, body_ok : BOOLEAN] \cup [marker : {MalformedMarker}, body_ok : {TRUE}]

PostSeqs == UNION {[1..n -> Posts] : n \in 0..MaxPosts}

Navs == {NoNav, BadNav, U32_MAX} \cup Pages

\* What the server returns for one page: the posts in document order and the
\* navigation element that follows the current-page marker.
Contents == [posts : PostSeqs, next : Navs]

Unloaded == [posts |-> <<>>, next |-> NotLoaded]

VARIABLES
    store,          \* the two cursor files: [last_page, last_post], Unset or a u32
    thread,         \* page number -> content the server serves for it
    latest,         \* the page number in the final URL of a GET for page u32::MAX
                    \* (NotLoaded: no such GET was answered yet)
    pc,             \* "idle" | "scanning" | "persist_page" | "persist_post"
    runs,           \* number of runs started
    outcome,        \* how the last finished run ended: "none" | "ok" (Ok(())) | "fetch_error"
                    \* (Error::Reqwest) | "scraping_error" (Error::Scraping) | "io_error"
                    \* (Error::Io) | "panic" (eprintln! could not write to stderr)
    page_number,    \* run(): page_number
    last_sent_post, \* run(): last_sent_post (Unset for None)
    last_id,        \* run(): last_id (Unset before the first assignment)
    failed,         \* run(): failed
    \* ---- observations of the current run (history, not read by the program)
    store0,         \* the store when the run started
    read_failed,    \* the records whose read failed in this run (line 40 gave None for them)
    requested,      \* the page number of the last GET (NoPage: none yet)
    last_fetched,   \* the resolved number of the page fetched last (NoPage: none yet)
    prev_fetched,   \* the resolved number of the page fetched just before it (NoPage: none)
    fetched,        \* the set of resolved pages fetched in this run
    delivered,      \* id -> how often it was delivered with success in this run (2: more than once)
    max_before,     \* the largest id delivered on earlier pages of this run (0: none)
    page_attempts,  \* the delivery attempts on the page scanned last: <<[id, ok]>>
    writes,         \* [last_page, last_post]: writes of each record in this run
    reads,          \* [last_page, last_post]: reads of each record in this run
    prev,           \* summary of the run before the current one
    errors,         \* the kinds of error met in this run: "fetch" | "text" | "resolve" | "scraping" |
                    \* "io" | "client" | "stderr"
    life,           \* over all runs: [sent: id -> successful deliveries (2: more than once),
                    \*                 fatal: some earlier run returned an error,
                    \*                 after_fault: runs started since a run in which the
                    \*                   read of a record failed (Unset: no such run yet)]
    pure            \* the pure text functions: [fn, text, max_chars, result]

vars == <<store, thread, latest, pc, runs, outcome, page_number, last_sent_post,
          last_id, failed, store0, read_failed, requested, last_fetched, prev_fetched,
          fetched, delivered, max_before, page_attempts, writes, reads, prev,
          errors, life, pure>>

progVars == <<page_number, last_sent_post, last_id, failed>>

\* ---------------------------------------------------------------- helpers
Max(S) == CHOOSE x \in S : \A y \in S : y <= x

\* counters of the history saturate at 2 ("more than once")
AddSat(n, k) == IF n + k >= 2 THEN 2 ELSE n + k

NoRun == [outcome |-> "none", failed |-> FALSE, delivered |-> {}, fetched |-> {},
          store0 |-> [last_page |-> Unset, last_post |-> Unset], read_failed |-> {}]

\* get_post_id: Ok(id) for a marker "post-<id>", Err(Error::Scraping) otherwise
get_post_id(post) ==
    IF post.marker = MalformedMarker
    THEN [ok |-> FALSE, id |-> 0]
    ELSE [ok |-> TRUE, id |-> post.marker]

\* Mutant of IsNew: the post is compared with the in-memory watermark.
IsNewAboveMemory(post_id, last_sent_id, last_id_temp) == post_id > last_id_temp

\* Mutant of IsNew: `>=` for `>`, the post at the watermark counts as new.
IsNewOrEqual(post_id, last_sent_id, last_id_temp) == post_id >= last_sent_id

\* The comparison of line 232: is this post new?
IsNew(post_id, last_sent_id, last_id_temp) == post_id > last_sent_id

\* The `for post in posts` loop of lines 230-268, from post i on.  `att` are the
\* delivery attempts made so far on this page, `fail_at` is the attempt of this
\* page that the sink rejects (0: none), `panic_at` the new post of this page
\* at which eprintln! (line 233 or 245) cannot write to stderr and panics
\* (0: none).  The result says how the loop ended: "done" (ran off the end),
\* "failed" (line 262-263), "scraping" (a `?`) or "panic".
RECURSIVE ScanPosts(_, _, _, _, _, _, _)
ScanPosts(posts, i, last_sent_id, last_id_temp, att, fail_at, panic_at) ==
    IF i > Len(posts)
    THEN [kind |-> "done", last_id |-> last_id_temp, attempts |-> att]
    ELSE LET post == posts[i]
             got == get_post_id(post)
         IN  IF ~got.ok
             THEN [kind |-> "scraping", last_id |-> last_id_temp, attempts |-> att]
             ELSE IF IsNew(got.id, last_sent_id, last_id_temp)
             THEN IF Len(att) + 1 = panic_at
                  THEN [kind |-> "panic", last_id |-> last_id_temp, attempts |-> att]
                  ELSE IF ~post.body_ok
                  THEN [kind |-> "scraping", last_id |-> last_id_temp, attempts |-> att]
                  ELSE IF Len(att) + 1 = fail_at
                  THEN [kind |-> "failed", last_id |-> last_id_temp,
                        attempts |-> Append(att, [id |-> got.id, ok |-> FALSE])]
                  ELSE ScanPosts(posts, i + 1, last_sent_id, got.id,
                                 Append(att, [id |-> got.id, ok |-> TRUE]), fail_at, panic_at)
             ELSE ScanPosts(posts, i + 1, last_sent_id, last_id_temp, att, fail_at, panic_at)

\* Mutant of ProcessPage: the baseline takes the id of the first post of the
\* page, not of the last.
ProcessPageBaselineFirst(posts, loaded, fail_at, panic_at) ==
    IF loaded # Unset
    THEN ScanPosts(posts, 1, loaded, loaded, <<>>, fail_at, panic_at)
    ELSE IF Len(posts) = 0
         THEN [kind |-> "scraping", last_id |-> Unset, attempts |-> <<>>]
         ELSE LET got == get_post_id(posts[1])
              IN  IF got.ok
                  THEN [kind |-> "done", last_id |-> got.id, attempts |-> <<>>]
                  ELSE [kind |-> "scraping", last_id |-> Unset, attempts |-> <<>>]

\* Mutant of ProcessPage: last_id_temp starts unset, not at the loaded
\* watermark, so that a page without new posts leaves no watermark to write.
ProcessPageFromNone(posts, loaded, fail_at, panic_at) ==
    IF loaded # Unset
    THEN ScanPosts(posts, 1, loaded, Unset, <<>>, fail_at, panic_at)
    ELSE IF Len(posts) = 0
         THEN [kind |-> "scraping", last_id |-> Unset, attempts |-> <<>>]
         ELSE LET got == get_post_id(posts[Len(posts)])
              IN  IF got.ok
                  THEN [kind |-> "done", last_id |-> got.id, attempts |-> <<>>]
                  ELSE [kind |-> "scraping", last_id |-> Unset, attempts |-> <<>>]

\* Lines 227-272: the posts of one page, with the loaded watermark set
\* (lines 228-269) or unset (line 271).
ProcessPage(posts, loaded, fail_at, panic_at) ==
    IF loaded # Unset
    THEN ScanPosts(posts, 1, loaded, loaded, <<>>, fail_at, panic_at)
    ELSE IF Len(posts) = 0
         THEN [kind |-> "scraping", last_id |-> Unset, attempts |-> <<>>]
         ELSE LET got == get_post_id(posts[Len(posts)])
              IN  IF got.ok
                  THEN [kind |-> "done", last_id |-> got.id, attempts |-> <<>>]
                  ELSE [kind |-> "scraping", last_id |-> Unset, attempts |-> <<>>]

\* Mutant of Transition: `failed` is not looked at, the loop follows the
\* next-page link after a failed delivery.
TransitionIgnoringFailure(is_failed, next, page) ==
    IF next = NoNav
    THEN [kind |-> "stop", page |-> page]
    ELSE IF next = BadNav
         THEN [kind |-> "scraping", page |-> page]
         ELSE [kind |-> "next", page |-> next]

\* Mutant of Transition: the loop continues without assigning page_number.
TransitionSamePage(is_failed, next, page) ==
    IF is_failed \/ next = NoNav
    THEN [kind |-> "stop", page |-> page]
    ELSE IF next = BadNav
         THEN [kind |-> "scraping", page |-> page]
         ELSE [kind |-> "next", page |-> page]

\* Mutant of Transition: a page without next-page element does not end the
\* loop, the page is fetched again.
TransitionNoEnd(is_failed, next, page) ==
    IF is_failed
    THEN [kind |-> "stop", page |-> page]
    ELSE IF next = BadNav
         THEN [kind |-> "scraping", page |-> page]
         ELSE [kind |-> "next", page |-> IF next = NoNav THEN page ELSE next]

\* Lines 274-286: where the loop goes after a page: "next" (continue with
\* page_number = page), "stop" (break) or "scraping" (the next-page text is
\* missing or no u32).
Transition(is_failed, next, page) ==
    IF is_failed \/ next = NoNav
    THEN [kind |-> "stop", page |-> page]
    ELSE IF next = BadNav
         THEN [kind |-> "scraping", page |-> page]
         ELSE [kind |-> "next", page |-> next]

\* how often id i was delivered with success among the attempts of a page
CountOk(att, i) == Cardinality({k \in 1..Len(att) : att[k].ok /\ att[k].id = i})

Delivered == {i \in Ids : delivered[i] > 0}

\* The final URLs a GET for `page` may end at, as page numbers.  Only the GET
\* for page u32::MAX is looked at (line 208): the server redirects it, and on
\* an unchanged thread to the same page every time.
FinalUrls(page) ==
    IF page # U32_MAX THEN {page}
    ELSE IF latest = NotLoaded THEN AllPages ELSE {latest}

\* Lines 208-220: a page number of u32::MAX is replaced by the number in the
\* last segment of the final URL.
Resolve(page, final) == IF page = U32_MAX THEN final ELSE page

\* What the server serves for a page: what it served before, the remote thread
\* being unchanged, or any content when the page is asked for the first time.
Served(page) == IF thread[page] = Unloaded THEN Contents ELSE {thread[page]}

\* ------------------------------------------------- the pure text functions
\* A string is a sequence of characters; in memory it is the sequence of the
\* bytes of its UTF-8 encoding.  "ae" stands for a two-byte character (a with
\* diaeresis), "eur" for a three-byte one (the euro sign), every other
\* character takes one byte.
Width(c) ==
    CASE c = "ae" -> 2
      [] c = "eur" -> 3
      [] OTHER -> 1

\* the bytes of one character: [ch, k] is its k-th byte
CharBytes(c) == [k \in 1..Width(c) |-> [ch |-> c, k |-> k]]

RECURSIVE Utf8(_)
Utf8(s) == IF s = <<>> THEN <<>> ELSE CharBytes(Head(s)) \o Utf8(Tail(s))

\* str::char_indices: the byte offsets (from 0) at which a character starts
char_indices(b) == {i - 1 : i \in {j \in 1..Len(b) : b[j].k = 1}}

\* Mutant of truncate: the limit is taken as a byte offset.
truncate_bytes(b, max_chars) ==
    IF max_chars >= Len(b) THEN b ELSE SubSeq(b, 1, max_chars)

\* truncate (lines 165-170): s.char_indices().nth(max_chars) is the start of
\* the character with max_chars characters before it; None gives s, Some
\* gives the slice &s[..idx].
truncate(b, max_chars) ==
    LET offs == char_indices(b)
        nth == {o \in offs : Cardinality({x \in offs : x < o}) = max_chars}
    IN  IF nth = {} THEN b ELSE SubSeq(b, 1, CHOOSE idx \in nth : TRUE)

\* line 84 and line 20: the marker and the default title
Marker == <<"T", "u", "o", "t", "e", ":">>
DefaultTitle == <<"U", "u", "s", "i", " ", "t", "a", "r", "j", "o", "u", "s">>

\* str::strip_prefix: Some(rest) when s starts with prefix, None otherwise
StartsWith(s, prefix) ==
    Len(s) >= Len(prefix) /\ SubSeq(s, 1, Len(prefix)) = prefix

\* str::split(sep): the segments between the separators; an empty string
\* gives one empty segment, so the iterator always has a first item
RECURSIVE split(_, _)
split(s, sep) ==
    LET at == {i \in 1..Len(s) : s[i] = sep}
    IN  IF at = {}
        THEN <<s>>
        ELSE LET i == CHOOSE j \in at : \A k \in at : j <= k
             IN  <<SubSeq(s, 1, i - 1)>> \o split(SubSeq(s, i + 1, Len(s)), sep)

\* get_title (lines 83-91):
\* content.strip_prefix("Tuote:").unwrap_or(default_title)
\*        .split('\n').next().unwrap_or(default_title)
get_title(content, default_title) ==
    LET stripped == IF StartsWith(content, Marker)
                    THEN SubSeq(content, Len(Marker) + 1, Len(content))
                    ELSE default_title
        parts == split(stripped, "\n")
    IN  IF parts = <<>> THEN default_title ELSE Head(parts)

\* The inputs of the text functions: a head (nothing, the marker, the marker
\* without its colon, the marker after another character) followed by up to
\* MaxText characters, among them the newline and the multi-byte characters.
TailChars == {"W", "\n", "ae", "eur"}
Tails == UNION {[1..n -> TailChars] : n \in 0..MaxText}
Heads == {<<>>, Marker, SubSeq(Marker, 1, Len(Marker) - 1), <<"W">> \o Marker}
Texts == {h \o t : h \in Heads, t \in Tails}
NoText == [fn |-> "none", text |-> <<>>, max_chars |-> 0, result |-> <<>>]

\* ------------------------------------------------------------------ Init
\* The state before the first run with one of the stores `stores` on disk;
\* no page of the thread has been served yet.
InitFrom(stores) ==
    /\ store \in stores
    /\ thread = [p \in AllPages |-> Unloaded]
    /\ latest = NotLoaded
    /\ pc = "idle"
    /\ runs = 0
    /\ outcome = "none"
    /\ page_number = U32_MAX
    /\ last_sent_post = Unset
    /\ last_id = Unset
    /\ failed = FALSE
    /\ store0 = store
    /\ read_failed = {}
    /\ requested = NoPage
    /\ last_fetched = NoPage
    /\ prev_fetched = NoPage
    /\ fetched = {}
    /\ delivered = [i \in Ids |-> 0]
    /\ max_before = 0
    /\ page_attempts = <<>>
    /\ writes = [last_page |-> 0, last_post |-> 0]
    /\ reads = [last_page |-> 0, last_post |-> 0]
    /\ prev = NoRun
    /\ errors = {}
    /\ life = [sent |-> [i \in Ids |-> 0], fatal |-> FALSE, after_fault |-> Unset]

\* The store is fresh, or holds a cursor left by earlier use: a watermark,
\* with or without a page.
InitRun == InitFrom({[last_page |-> Unset, last_post |-> Unset],
                     [last_page |-> Unset, last_post |-> 0],
                     [last_page |-> 1, last_post |-> 0]})

Init == InitRun /\ pure = NoText

\* The cursor as the run loaded it at lines 182-183: a record whose read
\* failed is None, the others are what the store held.
cursor0 == [last_page |-> IF "last_page" \in read_failed THEN Unset ELSE store0.last_page,
            last_post |-> IF "last_post" \in read_failed THEN Unset ELSE store0.last_post]

\* The record of the run that just ended, kept for the next one.
Summary == [outcome |-> outcome, failed |-> failed, delivered |-> Delivered,
            fetched |-> fetched, store0 |-> store0,
            read_failed |-> read_failed]

\* -------------------------------------------------------------- actions
\* try_read_u32 (lines 30-41), once the file is not refused at open: the
\* results it can give for a record that holds v (Unset: no file, or a file
\* of fewer than four bytes).  Line 34 gives None for a file not found; line
\* 40 gives the four bytes read, or None when the read fails (.ok() discards
\* the error, a short file and a failing read(2) alike).
try_read_u32(v) == {v, Unset}

\* The history of the reads at the start of a run: `records` are the records
\* that hold a value and whose read failed.  A behaviour is followed for
\* MaxRunsAfterFault runs after the first run that met such a failure.
ReadsFailed(records) ==
    /\ life.after_fault # Unset => life.after_fault < MaxRunsAfterFault
    /\ read_failed' = records
    /\ life' = [life EXCEPT !.fatal = @ \/ outcome \notin {"none", "ok"},
                            !.after_fault = IF @ # Unset THEN @ + 1
                                            ELSE IF records # {} THEN 0 ELSE Unset]

\* Lines 181-200: get_last_page()?.unwrap_or(u32::MAX), get_last_sent_post()?,
\* client, webhook url, selectors, failed = false.
Start ==
    /\ pc = "idle"
    /\ runs < MaxRuns
    /\ runs' = runs + 1
    /\ pc' = "scanning"
    /\ outcome' = "none"
    /\ \E last_page \in try_read_u32(store.last_page),
          last_post \in try_read_u32(store.last_post) :
        /\ page_number' = (IF last_page = Unset THEN U32_MAX ELSE last_page)
        /\ last_sent_post' = last_post
        /\ ReadsFailed({k \in {"last_page"} : last_page # store.last_page}
                           \cup {k \in {"last_post"} : last_post # store.last_post})
    /\ last_id' = Unset
    /\ failed' = FALSE
    /\ store0' = store
    /\ requested' = NoPage
    /\ last_fetched' = NoPage
    /\ prev_fetched' = NoPage
    /\ fetched' = {}
    /\ delivered' = [i \in Ids |-> 0]
    /\ max_before' = 0
    /\ page_attempts' = <<>>
    /\ writes' = [last_page |-> 0, last_post |-> 0]
    /\ reads' = [last_page |-> 1, last_post |-> 1]
    /\ prev' = (IF runs = 0 THEN NoRun ELSE Summary)
    /\ errors' = {}
    /\ UNCHANGED <<store, thread, latest, pure>>

\* Lines 182-189: the run ends with an error before the loop, at `step`:
\* "last_page" (line 182: the file cannot be opened for a reason other than
\* NotFound), "last_post" (line 183, the same), "client" (lines 185-187: the
\* client cannot be built, Error::Reqwest) or "webhook" (line 189:
\* webhook.conf cannot be read).  The records before `step` were read.
StartSteps == {"last_page", "last_post", "client", "webhook"}

\* main (lines 296-299) reports the error with eprintln! before
\* process::exit(1); when stderr cannot be written eprintln! panics.
\* run() returns Ok(()) at line 292, or Err(e) from a `?`; `errs` are the
\* kinds of error the run met.
Exit(e, errs) ==
    /\ pc' = "idle"
    /\ outcome' = e
    /\ \E printed \in BOOLEAN :
           errors' = IF e = "ok" \/ printed THEN errs ELSE errs \cup {"stderr"}

StartError ==
    /\ pc = "idle"
    /\ runs < MaxRuns
    /\ runs' = runs + 1
    /\ \E step \in StartSteps :
        /\ Exit(IF step = "client" THEN "fetch_error" ELSE "io_error",
                {IF step = "client" THEN "client" ELSE "io"})
        /\ reads' = [last_page |-> 1, last_post |-> IF step = "last_page" THEN 0 ELSE 1]
        /\ \E last_page \in (IF step = "last_page"
                             THEN {Unset} ELSE try_read_u32(store.last_page)),
              last_post \in (IF step \in {"last_page", "last_post"}
                             THEN {Unset} ELSE try_read_u32(store.last_post)) :
            /\ page_number' = (IF last_page = Unset THEN U32_MAX ELSE last_page)
            /\ last_sent_post' = last_post
            /\ ReadsFailed({k \in {"last_page"} :
                                step # "last_page" /\ last_page # store.last_page}
                               \cup {k \in {"last_post"} :
                                step \in {"client", "webhook"} /\ last_post # store.last_post})
    /\ store0' = store
    /\ requested' = NoPage
    /\ last_fetched' = NoPage
    /\ prev_fetched' = NoPage
    /\ fetched' = {}
    /\ delivered' = [i \in Ids |-> 0]
    /\ max_before' = 0
    /\ page_attempts' = <<>>
    /\ writes' = [last_page |-> 0, last_post |-> 0]
    /\ prev' = (IF runs = 0 THEN NoRun ELSE Summary)
    /\ last_id' = Unset
    /\ failed' = FALSE
    /\ UNCHANGED <<store, thread, latest, pure>>

\* Mutant of Fail: the page reached is checkpointed before the error leaves
\* the run.
FailCheckpointing(e, kind) ==
    /\ Exit(e, errors \cup {kind})
    /\ store' = [store EXCEPT !.last_page = page_number]

\* Mutant of Fail: the error is swallowed and run() returns Ok(()).
FailSilently(e, kind) ==
    /\ Exit("ok", errors \cup {kind})
    /\ store' = store

\* Mutant of Fail: the watermark reached on the pages scanned so far is saved
\* before the error leaves the run.
FailSavingWatermark(e, kind) ==
    /\ Exit(e, errors \cup {kind})
    /\ store' = [store EXCEPT !.last_post = IF last_id = Unset THEN @ ELSE last_id]

\* A `?` inside the loop (lines 206-281), or a panic, leaves run() at once:
\* lines 289-290 are not reached, the store is as it was.
Fail(e, kind) ==
    /\ Exit(e, errors \cup {kind})
    /\ store' = store

\* Line 203: eprintln!("Get page {}") cannot write to stderr and panics; no
\* GET is sent.
PanicAtGet ==
    /\ pc = "scanning"
    /\ Fail("panic", "stderr")
    /\ UNCHANGED <<thread, latest, runs, progVars, store0, read_failed, requested, last_fetched,
                   prev_fetched, fetched, delivered, max_before, page_attempts,
                   writes, reads, prev, life, pure>>

\* Lines 204-207 and 222: the GET of page_number is sent and fails or answers
\* with an error status ("send"), or the answer arrives, the page number is
\* resolved (lines 208-220) and the body cannot be read ("text").  Both are
\* Error::Reqwest; the kind of error recorded is "fetch" or "text".
FetchError ==
    /\ pc = "scanning"
    /\ requested' = page_number
    /\ \E stage \in {"send", "text"}, final \in FinalUrls(page_number) :
        /\ Fail("fetch_error", IF stage = "send" THEN "fetch" ELSE "text")
        /\ page_number' = (IF stage = "text" THEN Resolve(page_number, final)
                           ELSE page_number)
        /\ latest' = (IF stage = "text" /\ page_number = U32_MAX THEN final ELSE latest)
    /\ UNCHANGED <<thread, runs, last_sent_post, last_id, failed, store0, read_failed, last_fetched,
                   prev_fetched, fetched, delivered, max_before, page_attempts,
                   writes, reads, prev, life, pure>>

\* Lines 208-220: the GET of page u32::MAX was answered and the final URL has
\* no trailing "page-<digits>" segment.
ResolveError ==
    /\ pc = "scanning"
    /\ page_number = U32_MAX
    /\ Fail("scraping_error", "resolve")
    /\ requested' = page_number
    /\ UNCHANGED <<thread, latest, runs, progVars, store0, read_failed, last_fetched,
                   prev_fetched, fetched, delivered, max_before, page_attempts,
                   writes, reads, prev, life, pure>>

\* Lines 202-286, one iteration of the loop with a page that arrives: resolve
\* the page number if it was u32::MAX, scan the posts, deliver the new ones,
\* then continue with the next page, break, or leave with a scraping error.
ScanFrom(served) ==
    /\ pc = "scanning"
    /\ \E final \in FinalUrls(page_number), fail_at \in 0..MaxPosts, panic_at \in 0..MaxPosts :
       \E content \in served[Resolve(page_number, final)] :
           LET resolved == Resolve(page_number, final)
               r == ProcessPage(content.posts, last_sent_post, fail_at, panic_at)
               is_failed == failed \/ r.kind = "failed"
               t == Transition(is_failed, content.next, resolved)
           IN  /\ fail_at = 0 \/ panic_at = 0
               /\ fail_at <= Len(r.attempts)
               /\ fail_at > 0 => r.kind = "failed"
               /\ panic_at > 0 => r.kind = "panic"
               /\ thread' = [thread EXCEPT ![resolved] = content]
               /\ latest' = (IF page_number = U32_MAX THEN final ELSE latest)
               /\ requested' = page_number
               /\ prev_fetched' = last_fetched
               /\ last_fetched' = resolved
               /\ fetched' = fetched \cup {resolved}
               /\ page_attempts' = r.attempts
               /\ max_before' = Max({0} \cup Delivered)
               /\ delivered' = [i \in Ids |-> AddSat(delivered[i], CountOk(r.attempts, i))]
               /\ life' = [life EXCEPT !.sent = [i \in Ids |->
                                         AddSat(@[i], CountOk(r.attempts, i))]]
               /\ IF r.kind \in {"scraping", "panic"}
                  THEN /\ IF r.kind = "panic"
                          THEN Fail("panic", "stderr")
                          ELSE Fail("scraping_error", "scraping")
                       /\ page_number' = resolved
                       /\ UNCHANGED <<last_id, failed>>
                  ELSE /\ last_id' = r.last_id
                       /\ failed' = is_failed
                       /\ page_number' = t.page
                       /\ IF t.kind = "scraping"
                          THEN Fail("scraping_error", "scraping")
                          ELSE /\ pc' = (IF t.kind = "next" THEN "scanning" ELSE "persist_page")
                               /\ UNCHANGED <<outcome, store, errors>>
    /\ UNCHANGED <<runs, last_sent_post, store0, read_failed, writes, reads, prev, pure>>

ScanPage == ScanFrom([page \in AllPages |-> Served(page)])

\* write_u32 (lines 43-47) on one record: File::create succeeds and the four
\* bytes are written ("written"), File::create fails and the file is as it was
\* ("kept"), or the file is created empty and the write fails ("emptied": a
\* later try_read_u32 reads None).
WriteResults == {"written", "kept", "emptied"}

\* Mutant of write_u32: a write that fails after File::create leaves a record
\* that reads as 0.
write_u32_zeroed(old, u, result) ==
    CASE result = "written" -> u
      [] result = "kept" -> old
      [] result = "emptied" -> 0

write_u32(old, u, result) ==
    CASE result = "written" -> u
      [] result = "kept" -> old
      [] result = "emptied" -> Unset

\* Mutant of PersistPage: both records are written here, and last_post again
\* by PersistPost.
PersistPageAndPost ==
    /\ pc = "persist_page"
    /\ store' = [last_page |-> page_number, last_post |-> last_id]
    /\ writes' = [last_page |-> AddSat(writes.last_page, 1),
                  last_post |-> AddSat(writes.last_post, 1)]
    /\ pc' = "persist_post"
    /\ UNCHANGED <<thread, latest, runs, outcome, progVars, store0, read_failed, requested, last_fetched,
                   prev_fetched, fetched, delivered, max_before, page_attempts, reads, prev,
                   errors, life, pure>>

\* Line 289: set_last_page(page_number)?
PersistPage ==
    /\ pc = "persist_page"
    /\ \E result \in WriteResults :
        /\ store' = [store EXCEPT !.last_page = write_u32(@, page_number, result)]
        /\ writes' = [writes EXCEPT !.last_page = IF result = "kept" THEN @ ELSE AddSat(@, 1)]
        /\ IF result = "written"
           THEN pc' = "persist_post" /\ UNCHANGED <<outcome, errors>>
           ELSE Exit("io_error", errors \cup {"io"})
    /\ UNCHANGED <<thread, latest, runs, progVars, store0, read_failed, requested, last_fetched,
                   prev_fetched, fetched, delivered, max_before, page_attempts, reads, prev,
                   life, pure>>

\* Lines 290-292: set_last_sent_post(last_id)?; Ok(())
PersistPost ==
    /\ pc = "persist_post"
    /\ \E result \in WriteResults :
        /\ store' = [store EXCEPT !.last_post = write_u32(@, last_id, result)]
        /\ writes' = [writes EXCEPT !.last_post = IF result = "kept" THEN @ ELSE AddSat(@, 1)]
        /\ Exit(IF result = "written" THEN "ok" ELSE "io_error",
                IF result = "written" THEN errors ELSE errors \cup {"io"})
    /\ UNCHANGED <<thread, latest, runs, progVars, store0, read_failed, requested, last_fetched,
                   prev_fetched, fetched, delivered, max_before, page_attempts, reads, prev,
                   life, pure>>

Next ==
    \/ Start
    \/ StartError
    \/ PanicAtGet
    \/ FetchError
    \/ ResolveError
    \/ ScanPage
    \/ PersistPage
    \/ PersistPost

Spec == Init /\ [][Next]_vars

\* ---------------------------------------- the text functions on their own
\* A text and a limit are drawn, then one of the functions is applied to them
\* as run() applies it at lines 243-252: get_title to the content, truncate
\* to the bytes of a string.
TextInit ==
    /\ InitRun
    /\ store = [last_page |-> Unset, last_post |-> Unset]
    /\ pure \in [fn : {"none"}, text : Texts, max_chars : 0..MaxChars, result : {<<>>}]

runVars == <<store, thread, latest, pc, runs, outcome, progVars, store0, read_failed, requested,
             last_fetched, prev_fetched, fetched, delivered, max_before,
             page_attempts, writes, reads, prev, errors, life>>

ApplyGetTitle ==
    /\ pure.fn = "none"
    /\ pure' = [pure EXCEPT !.fn = "get_title",
                            !.result = get_title(pure.text, DefaultTitle)]
    /\ UNCHANGED runVars

ApplyTruncate ==
    /\ pure.fn = "none"
    /\ pure' = [pure EXCEPT !.fn = "truncate",
                            !.result = truncate(Utf8(pure.text), pure.max_chars)]
    /\ UNCHANGED runVars

TextNext == ApplyGetTitle \/ ApplyTruncate

TextSpec == TextInit /\ [][TextNext]_vars

\* ===================================================================
\* Properties
\* ===================================================================
RunOk == pc = "idle" /\ outcome = "ok"

\* the well-formed post ids of page p, in document order
PageIds(p) ==
    LET posts == thread[p].posts
        RECURSIVE ids(_)
        ids(i) == IF i > Len(posts) THEN <<>>
                  ELSE IF posts[i].marker = MalformedMarker THEN ids(i + 1)
                  ELSE <<posts[i].marker>> \o ids(i + 1)
    IN  ids(1)

StrictlyIncreasing(q) == \A i, j \in 1..Len(q) : i < j => q[i] < q[j]

\* the post ids in page order, and in document order on each page
RECURSIVE ThreadIdsFrom(_)
ThreadIdsFrom(k) ==
    IF k > Len(PageOrder) THEN <<>> ELSE PageIds(PageOrder[k]) \o ThreadIdsFrom(k + 1)

\* what the spec assumes of the forum: ids ascend in document and page order
Ascending == StrictlyIncreasing(ThreadIdsFrom(1))

\* the id of the last post of page p
LastPostId(p) == thread[p].posts[Len(thread[p].posts)].marker

\* no delivery was attempted in the current run
NoAttempts == Delivered = {} /\ page_attempts = <<>>

\* every next-page link seen so far names a later page of the thread
NavForward ==
    \A p \in AllPages : thread[p].next \in {NotLoaded, NoNav, BadNav}
                             \/ (thread[p].next \in Pages /\ thread[p].next > p)

\* every page served so far holds a post
NoEmptyPage == \A p \in AllPages : thread[p].next = NotLoaded \/ thread[p].posts # <<>>

\* C1: when a run that loaded a set watermark X returns success, the
\* last_sent_id it persisted is the maximum of X and the ids of all posts
\* delivered in that run on any of its pages.  Stated for the threads the spec
\* assumes: ids ascend in document and page order, links lead forward, no
\* page is empty.
C1_PersistsHighestDelivered ==
    (RunOk /\ cursor0.last_post # Unset /\ Ascending /\ NavForward /\ NoEmptyPage)
        => store.last_post = Max({cursor0.last_post} \cup Delivered)

\* C2: a run that ends with a fetch error or a scraping error has written
\* neither cursor record: the store is what it was when the run started.
C2_FatalErrorWritesNothing ==
    (pc = "idle" /\ outcome \in {"fetch_error", "scraping_error"})
        => (store = store0 /\ writes = [last_page |-> 0, last_post |-> 0])

\* C2 witness: a run ended with a scraping error on its second page after it
\* had delivered posts.
C2_Witness ==
    /\ pc = "idle" /\ outcome = "scraping_error"
    /\ Delivered # {}
    /\ Cardinality(fetched) >= 2
    /\ store0.last_page # Unset

\* the failed delivery attempt is the last attempt of the page scanned last
FailedAttemptIsLast ==
    /\ page_attempts # <<>>
    /\ ~page_attempts[Len(page_attempts)].ok
    /\ \A k \in 1..(Len(page_attempts) - 1) : page_attempts[k].ok

\* C3: after a delivery attempt failed the run attempts no further delivery
\* and fetches no further page, holds page_number at the page of the failure,
\* and persists that page as last_page, next-page link or not.
C3_FailureStopsAndHoldsPage ==
    failed => /\ pc # "scanning"
              /\ FailedAttemptIsLast
              /\ page_number = last_fetched
              /\ RunOk => store.last_page = last_fetched

\* C3 witness: on the second page of a run the first delivery failed, a newer
\* post was left on the page, the page has a next-page link, and the run has
\* persisted.
C3_Witness ==
    /\ RunOk /\ failed
    /\ prev_fetched # NoPage
    /\ thread[last_fetched].next \in Pages \ {last_fetched}
    /\ Len(page_attempts) = 1
    /\ Len(thread[last_fetched].posts) = 2
    /\ LastPostId(last_fetched) > cursor0.last_post

\* C4: a run that loaded an unset last_sent_id attempts no delivery on any
\* page, and when it returns success the persisted last_sent_id is the id of
\* the last post, in document order, of the last page it scanned.
C4_BaselineDeliversNothing ==
    (runs > 0 /\ cursor0.last_post = Unset)
        => /\ NoAttempts
           /\ ~failed
           /\ RunOk => store.last_post = LastPostId(last_fetched)

\* C4 witness: a baseline run over two pages, the last one holding two posts
\* whose last is not the greatest.
C4_Witness ==
    /\ RunOk /\ cursor0.last_post = Unset
    /\ Cardinality(fetched) >= 2
    /\ Len(thread[last_fetched].posts) >= 2
    /\ thread[last_fetched].posts[1].marker > LastPostId(last_fetched)

\* the run before the current one returned success without a delivery failure
\* (it ended in Done), and the current run started from the cursor it left
AfterDoneRun == runs > 1 /\ prev.outcome = "ok" /\ ~prev.failed

\* on every page the well-formed ids ascend in document order
AscendingPages == \A p \in AllPages : StrictlyIncreasing(PageIds(p))

CursorReadBack == read_failed = {}

C7_CursorReadOnceWrittenOnce ==
    /\ pc # "idle" => reads = [last_page |-> 1, last_post |-> 1]
    /\ pc \in {"scanning", "persist_page"} => writes = [last_page |-> 0, last_post |-> 0]
    /\ pc = "persist_post" => writes = [last_page |-> 1, last_post |-> 0]
    /\ RunOk => /\ writes = [last_page |-> 1, last_post |-> 1]
                /\ reads = [last_page |-> 1, last_post |-> 1]
    /\ writes.last_page <= 1 /\ writes.last_post <= 1

\* C7 witness: a run over two pages with a delivery has written both records.
C7_Witness ==
    /\ RunOk
    /\ Cardinality(fetched) >= 2
    /\ Delivered # {}
    /\ store # store0

AttemptIds == [k \in 1..Len(page_attempts) |-> page_attempts[k].id]

\* C8: every delivery attempt is for a post whose id is greater than the id of
\* every post delivered earlier in the run, on this page or on earlier ones.
C8_DeliveriesAscend ==
    /\ StrictlyIncreasing(AttemptIds)
    /\ \A k \in 1..Len(page_attempts) : page_attempts[k].id > max_before

\* the body of the last GET of the run arrived (line 222 passed): that GET is
\* the request recorded in last_fetched
BodyArrived == errors \cap {"fetch", "resolve", "text"} = {}

\* C9 as claimed: every page fetched after the first has a greater number than
\* the page fetched just before it.
C9_PagesAscend ==
    prev_fetched # NoPage => last_fetched > prev_fetched

\* C9 amended: every GET after the first, once its body arrived, asked for
\* the number that the next-page element of the page fetched just before
\* holds, taken verbatim; the page fetched is the page of that number, and
\* for the number u32::MAX the page that the final URL names; the order is
\* ascending whenever the element holds a number greater than its page's that
\* is not u32::MAX.
C9_PagesFollowNav ==
    (prev_fetched # NoPage /\ BodyArrived) =>
        /\ requested = thread[prev_fetched].next
        /\ last_fetched = Resolve(requested, latest)
        /\ (requested # U32_MAX /\ thread[prev_fetched].next > prev_fetched)
               => last_fetched > prev_fetched

\* C9 witness: a second page was fetched, and it is a later page.
C9_Witness ==
    /\ prev_fetched # NoPage
    /\ last_fetched > prev_fetched
    /\ requested = last_fetched

\* The program is sequential and its calls return: a run that has started
\* takes its next step.
RunStep == PanicAtGet \/ FetchError \/ ResolveError \/ ScanPage \/ PersistPage \/ PersistPost

\* Termination is a property of one run: FairSpec follows the first run of
\* the program from every initial store.
FirstStart == runs = 0 /\ Start

FirstStartError == runs = 0 /\ StartError

NextFirstRun ==
    \/ FirstStart
    \/ FirstStartError
    \/ PanicAtGet
    \/ FetchError
    \/ ResolveError
    \/ ScanPage
    \/ PersistPage
    \/ PersistPost

FairSpec == Init /\ [][NextFirstRun]_vars /\ WF_vars(RunStep)

\* The loop goes on exactly when the page scanned last has a next-page element
\* and no delivery failed; a run that ended in Done persisted the number of a
\* page without next-page element.
C10_DoneAtLastPage ==
    /\ (pc = "scanning" /\ last_fetched # NoPage)
           => (~failed /\ thread[last_fetched].next \in Pages \cup {U32_MAX})
    /\ (pc \in {"persist_page", "persist_post"} /\ ~failed)
           => (thread[last_fetched].next = NoNav /\ page_number = last_fetched)
    /\ (RunOk /\ ~failed) => (thread[last_fetched].next = NoNav
                               /\ store.last_page = last_fetched)

\* C10 as claimed: a page without next-page element, processed without a
\* delivery failure, ends the loop in Done with that page persisted, and every
\* run terminates.
C10_Terminates ==
    /\ []C10_DoneAtLastPage
    /\ (pc # "idle") ~> (pc = "idle")

\* C10 amended: the same, with termination for the runs in which every
\* next-page element names a later page of the thread.
C10_TerminatesForward ==
    /\ []C10_DoneAtLastPage
    /\ (pc # "idle") ~> (pc = "idle" \/ ~NavForward)

\* C10 witness: a run went over two pages, the second without next-page
\* element, and ended in Done with that page persisted.
C10_Witness ==
    /\ RunOk /\ ~failed /\ NavForward
    /\ prev_fetched # NoPage
    /\ last_fetched > prev_fetched
    /\ store.last_page = last_fetched
    /\ store0.last_page # last_fetched

\* ------------------------------------------------------------------- C11
\* main (lines 295-300): exit code 1 when run() returned an error, 0 when it
\* returned Ok(()); a panic of eprintln! ends the process with code 101
ExitCode ==
    IF "stderr" \in errors THEN 101
    ELSE IF outcome = "ok" THEN 0 ELSE 1

RunEnded == pc = "idle" /\ outcome # "none"

\* C11: a run that has ended returned success (exit code 0) exactly when it
\* met no fetch, scraping, configuration or I/O error; a failed delivery with
\* no such error leaves the exit code 0.
C11_SuccessIffNoError ==
    RunEnded =>
        /\ (ExitCode = 0) <=> (errors = {})
        /\ (failed /\ errors = {}) => ExitCode = 0

\* a run with a failed delivery and no error has returned success
C11_Witness ==
    /\ RunEnded
    /\ failed
    /\ \E k \in 1..Len(page_attempts) : ~page_attempts[k].ok
    /\ errors = {}
    /\ ExitCode = 0

\* ------------------------------------------------------------------- C12
\* the part of s before its first newline (all of s when it has none)
UpToNewline(s) ==
    LET at == {i \in 1..Len(s) : s[i] = "\n"}
    IN  IF at = {} THEN s ELSE SubSeq(s, 1, (CHOOSE i \in at : \A j \in at : i <= j) - 1)

AfterMarker(s) == SubSeq(s, Len(Marker) + 1, Len(s))

\* C12: the title of a content that begins with the marker is what follows
\* the marker up to the first newline, or the default title when that is
\* empty; the title of any other content is the default title.
C12_TitleDerivation ==
    pure.fn = "get_title" =>
        IF StartsWith(pure.text, Marker)
        THEN pure.result = (IF UpToNewline(AfterMarker(pure.text)) = <<>>
                            THEN DefaultTitle
                            ELSE UpToNewline(AfterMarker(pure.text)))
        ELSE pure.result = DefaultTitle

\* ------------------------------------------------------------------- C13
\* the byte sequence b does not end inside a multi-byte character
EndsOnBoundary(b) == b = <<>> \/ b[Len(b)].k = Width(b[Len(b)].ch)

\* C13: truncate(s, n) is the encoding of the first min(n, |s|) characters of
\* s, it never ends inside a multi-byte character, and it is s itself when s
\* has at most n characters.
C13_TruncateCodepointSafe ==
    pure.fn = "truncate" =>
        LET s == pure.text
            n == pure.max_chars
            k == IF n < Len(s) THEN n ELSE Len(s)
        IN  /\ pure.result = Utf8(SubSeq(s, 1, k))
            /\ EndsOnBoundary(pure.result)
            /\ Len(s) <= n => pure.result = Utf8(s)

\* a string was cut after a multi-byte character, at a byte offset beyond
\* the limit
C13_Witness ==
    /\ pure.fn = "truncate"
    /\ pure.max_chars > 0
    /\ pure.max_chars < Len(pure.text)
    /\ Width(pure.text[pure.max_chars]) > 1
    /\ Len(pure.result) > pure.max_chars
    /\ Len(pure.result) < Len(Utf8(pure.text))

\* ------------------------------------------------------------------- C14
\* The ids the claimed rule sends on a page entered with the in-memory
\* watermark wm: a post is sent when its id is above the watermark, and the
\* watermark moves to its id; the scan ends at a post without a readable id.
RECURSIVE ClaimedSends(_, _, _, _)
ClaimedSends(posts, i, wm, acc) ==
    IF i > Len(posts) \/ posts[i].marker = MalformedMarker
    THEN acc
    ELSE IF posts[i].marker > wm
         THEN ClaimedSends(posts, i + 1, posts[i].marker, Append(acc, posts[i].marker))
         ELSE ClaimedSends(posts, i + 1, wm, acc)

IsPrefix(p, q) == Len(p) <= Len(q) /\ SubSeq(q, 1, Len(p)) = p

\* the watermark of the claim when the page scanned last was entered: the
\* loaded last_sent_id, moved up by the deliveries on the earlier pages
CarriedWatermark == Max({cursor0.last_post, max_before})

\* the page scanned last was scanned to its end
PageCompleted ==
    /\ pc # "idle"
    /\ \A k \in 1..Len(page_attempts) : page_attempts[k].ok

\* C14: in a run with a set watermark the posts formatted and sent on a page
\* are exactly those whose id is above the in-memory watermark, which starts
\* at the loaded last_sent_id, moves to the id of each delivered post and is
\* carried from page to page (a failed delivery or an error ends the scan, so
\* the attempts are then a prefix of them).
C14_SendsAboveInMemoryWatermark ==
    (cursor0.last_post # Unset /\ last_fetched # NoPage) =>
        LET claimed == ClaimedSends(thread[last_fetched].posts, 1, CarriedWatermark, <<>>)
        IN  /\ IsPrefix(AttemptIds, claimed)
            /\ PageCompleted => AttemptIds = claimed

\* ------------------------------------------------------------------- C15
\* page p holds a post whose id marker is absent or is not "post-<digits>"
HasMalformedPost(p) ==
    \E k \in 1..Len(thread[p].posts) : ~get_post_id(thread[p].posts[k]).ok

\* C15: a page fetched in the run that holds a malformed post, at whatever
\* position and whether or not the run is a baseline run, has ended the run
\* with a scraping error.
C15_MalformedPostAborts ==
    (\E p \in fetched : HasMalformedPost(p)) =>
        (pc = "idle" /\ outcome = "scraping_error")

\* ------------------------------------------------------------------- C16
\* C16: the page number is resolved from the final URL only when last_page
\* was loaded as unset and only for the first GET of the run; a page number loaded from
\* the cursor or parsed from a next-page element, whatever u32 value it has,
\* is fetched verbatim and is the resolved page number.
C16_ResolutionOnlyUnsetFirst ==
    (last_fetched # NoPage /\ BodyArrived
        /\ (cursor0.last_page # Unset \/ prev_fetched # NoPage)) =>
        last_fetched = requested

\* ------------------------------------------------------------------- C17
\* the run before the current one delivered posts and then ended with a
\* fetch or scraping error
AfterFatalRun ==
    /\ runs > 1
    /\ prev.outcome \in {"fetch_error", "scraping_error"}
    /\ prev.delivered # {}

\* the current run has ended, every delivery was accepted, and the server
\* answered every GET (no fetch, body, final-URL, file, client or stderr error)
EndedWithWorkingSink ==
    /\ RunEnded
    /\ ~failed
    /\ errors \cap {"fetch", "text", "resolve", "io", "client", "stderr"} = {}

RECURSIVE IdsOfPosts(_)
IdsOfPosts(posts) ==
    IF posts = <<>> THEN <<>>
    ELSE IF Head(posts).marker = MalformedMarker THEN IdsOfPosts(Tail(posts))
    ELSE <<Head(posts).marker>> \o IdsOfPosts(Tail(posts))

RECURSIVE IdsFromIn(_, _)
IdsFromIn(th, k) ==
    IF k > Len(PageOrder) THEN <<>>
    ELSE IdsOfPosts(th[PageOrder[k]].posts) \o IdsFromIn(th, k + 1)

AscendingIn(th) == StrictlyIncreasing(IdsFromIn(th, 1))

\* The forum serves a page of a thread whose ids ascend in document and page
\* order: the content recorded for the page, or, the first time, any content
\* that keeps the ids of the thread ascending.
GrowServed(page) ==
    {c \in Served(page) : AscendingIn([thread EXCEPT ![page] = c])}

GrowScanPage == ScanFrom([page \in AllPages |-> GrowServed(page)])

\* Between two runs a post with an id above every id of the thread is added
\* at the end of a page that has no next-page link.
AppendPost ==
    /\ pc = "idle"
    /\ runs < MaxRuns
    /\ \E p \in AllPages, post \in Posts :
        /\ thread[p] # Unloaded
        /\ thread[p].next = NoNav
        /\ Len(thread[p].posts) < MaxPosts
        /\ post.marker # MalformedMarker
        /\ \A i \in 1..Len(IdsFromIn(thread, 1)) : IdsFromIn(thread, 1)[i] < post.marker
        /\ AscendingIn([thread EXCEPT ![p].posts = Append(@, post)])
        /\ thread' = [thread EXCEPT ![p].posts = Append(@, post)]
    /\ UNCHANGED <<store, latest, pc, runs, outcome, progVars, store0, read_failed, requested, last_fetched,
                   prev_fetched, fetched, delivered, max_before, page_attempts,
                   writes, reads, prev, errors, life, pure>>

\* Between two runs a new page is opened after a page that had no next-page
\* link: the page now links to the following one.
LinkPage ==
    /\ pc = "idle"
    /\ runs < MaxRuns
    /\ \E p \in AllPages :
        /\ thread[p] # Unloaded
        /\ thread[p].next = NoNav
        /\ p < MaxPage
        /\ thread' = [thread EXCEPT ![p].next = p + 1]
        /\ latest' = (IF latest = p THEN p + 1 ELSE latest)
    /\ UNCHANGED <<store, pc, runs, outcome, progVars, store0, read_failed, requested, last_fetched,
                   prev_fetched, fetched, delivered, max_before, page_attempts,
                   writes, reads, prev, errors, life, pure>>

GrowNext ==
    \/ Start
    \/ StartError
    \/ PanicAtGet
    \/ FetchError
    \/ ResolveError
    \/ GrowScanPage
    \/ PersistPage
    \/ PersistPost
    \/ AppendPost
    \/ LinkPage

GrowSpec == Init /\ [][GrowNext]_vars

\* no run so far has returned an error
NoFatalSoFar == ~life.fatal /\ outcome \in {"none", "ok"}

\* C18: over runs without fatal error on an append-only thread
\* whose ids ascend in document and page order, no post is delivered with
\* success more than once, whatever deliveries fail.
C18_NoDuplicateDelivery ==
    (NoFatalSoFar /\ AscendingIn(thread)) =>
        \A i \in Ids : life.sent[i] <= 1

\* C18 where no page is scanned twice: on a thread whose next-page links all
\* lead to a later page, over runs that read their records back (a run that
\* reads last_page as None starts at the latest page again), no post is
\* delivered with success more than once.
C18_NoDuplicateDeliveryForward ==
    (NoFatalSoFar /\ AscendingIn(thread) /\ NavForward /\ life.after_fault = Unset) =>
        \A i \in Ids : life.sent[i] <= 1

\* C18, reached on such a thread: a second run, after a run with a failed
\* delivery, has delivered a post the first run did not deliver
C18_Witness ==
    /\ runs > 1
    /\ NoFatalSoFar
    /\ NavForward
    /\ prev.failed
    /\ prev.delivered # {}
    /\ Delivered # {}
    /\ Delivered \cap prev.delivered = {}
    /\ \A i \in Ids : life.sent[i] <= 1

\* ------------------------------------------------------------------- C19
\* the run loaded a set cursor (P, X) and ended in Done
DoneFromSetCursor ==
    /\ RunOk
    /\ ~failed
    /\ cursor0.last_page # Unset
    /\ cursor0.last_post # Unset

\* One run from a set cursor (P, X): last_page holds any page number, the
\* number u32::MAX included, last_sent_post a watermark.
CursorInit ==
    /\ InitFrom([last_page : AllPages, last_post : 0..(MaxId - 1)])
    /\ pure = NoText

\* how many posts on the pages in S carry the id i (2: more than one)
PostCount(S, i) ==
    LET at == {pk \in S \X (1..MaxPosts) :
                   /\ pk[2] <= Len(thread[pk[1]].posts)
                   /\ thread[pk[1]].posts[pk[2]].marker = i}
    IN  IF Cardinality(at) >= 2 THEN 2 ELSE Cardinality(at)

\* the page numbers from a to b
PagesBetween(a, b) == {p \in AllPages : a <= p /\ p <= b}

\* the pages from P to the page at which the Done run ended, the page without
\* next-page element, that the run did not fetch
SkippedPages == PagesBetween(cursor0.last_page, last_fetched) \ fetched

\* The thread has not changed: what the server holds on a page that the Done
\* run left out is what it serves for that page when asked after the run.
ServeSkipped ==
    /\ DoneFromSetCursor
    /\ \E p \in SkippedPages :
        /\ thread[p] = Unloaded
        /\ \E content \in Served(p) : thread' = [thread EXCEPT ![p] = content]
    /\ UNCHANGED <<store, latest, pc, runs, outcome, progVars, store0, read_failed, requested, last_fetched,
                   prev_fetched, fetched, delivered, max_before, page_attempts,
                   writes, reads, prev, errors, life, pure>>

CursorNext ==
    \/ FirstStart
    \/ FirstStartError
    \/ PanicAtGet
    \/ FetchError
    \/ ResolveError
    \/ ScanPage
    \/ PersistPage
    \/ PersistPost
    \/ ServeSkipped

CursorSpec == CursorInit /\ [][CursorNext]_vars

\* C19 as claimed: after a Done run from the cursor (P, X) every post with an
\* id above X on every page from P to the last page, the page without
\* next-page element at which the run ended, is on a page the run fetched,
\* and every such post on the pages fetched was delivered exactly once.
C19_NoNewPostSkipped ==
    DoneFromSetCursor =>
        /\ \A p \in PagesBetween(cursor0.last_page, last_fetched) :
               \A k \in 1..Len(thread[p].posts) :
                   thread[p].posts[k].marker > cursor0.last_post => p \in fetched
        /\ \A i \in Ids : i > cursor0.last_post => delivered[i] = PostCount(fetched, i)

\* every next-page link seen so far names the following page
NavConsecutive ==
    \A p \in AllPages : thread[p].next \in {NotLoaded, NoNav, BadNav}
                             \/ (p # U32_MAX /\ thread[p].next = p + 1)

\* C19 amended: after a Done run from the cursor (P, X) the pages fetched are
\* P (for P = u32::MAX the page that the final URL names) and the pages that
\* the next-page links lead to from it, up to a page without such a link;
\* every post on them with an id above X was delivered exactly once; they are
\* all pages from P to the last one when every link names the following page
\* and P is not u32::MAX.
C19_NoNewPostSkippedOnVisited ==
    DoneFromSetCursor =>
        /\ Resolve(cursor0.last_page, latest) \in fetched
        /\ thread[last_fetched].next = NoNav
        /\ \A p \in fetched \ {last_fetched} : Resolve(thread[p].next, latest) \in fetched
        /\ \A i \in Ids : i > cursor0.last_post => delivered[i] = PostCount(fetched, i)
        /\ (NavConsecutive /\ cursor0.last_page # U32_MAX)
               => fetched = PagesBetween(cursor0.last_page, last_fetched)

\* a Done run over two pages delivered a new post on each of them
C19_Witness ==
    /\ DoneFromSetCursor
    /\ NavConsecutive
    /\ Cardinality(fetched) = 2
    /\ fetched = PagesBetween(cursor0.last_page, last_fetched)
    /\ \A p \in fetched : \E i \in Ids : i > cursor0.last_post /\ PostCount({p}, i) = 1
    /\ \A i \in Ids : i > cursor0.last_post => delivered[i] = PostCount(fetched, i)

\* ------------------------------------------------------------------- C20
\* the values the run computed for the two records
Computed == [last_page |-> page_number, last_post |-> last_id]

\* C20 as claimed: after every run, also one in which a record write failed,
\* both records hold the values computed by the run or both hold the values
\* they had at its start.
C20_RecordsChangeTogether ==
    RunEnded => (store = Computed \/ store = store0)

\* C20 amended: after a run that returned success both records hold the
\* computed values; after a run ended by a fetch or scraping error, or before
\* the loop, both hold the values of the start; after a failed write of
\* last_page that record is as at the start or unset and last_sent_id is as
\* at the start; after a failed write of last_sent_id the record last_page
\* holds the computed value and last_sent_id is as at the start or unset.
C20_RecordsWrittenInTurn ==
    RunEnded =>
        /\ outcome = "ok" => store = Computed
        /\ outcome \in {"fetch_error", "scraping_error", "panic"} => store = store0
        /\ outcome = "io_error" =>
             \/ store = store0
             \/ /\ writes.last_post = 0
                /\ store.last_page = Unset
                /\ store.last_post = store0.last_post
             \/ /\ writes.last_page = 1
                /\ store.last_page = page_number
                /\ store.last_post \in {store0.last_post, Unset}

\* a run wrote last_page and failed to write last_sent_id: the page is
\* advanced, the watermark is the old one
C20_Witness ==
    /\ RunEnded
    /\ outcome = "io_error"
    /\ store.last_page = page_number
    /\ store.last_page # store0.last_page
    /\ store.last_post = store0.last_post
    /\ last_id # store0.last_post
    /\ store0.last_post # Unset

====
